---- MODULE Spec2Model ----
(***************************************************************************)
(* A model of the two mail pipelines of the repository:                    *)
(*   EmailScraper (src/modules/email_scraper.py): connect, scrape_emails,  *)
(*     get_email_body, disconnect, over an imaplib session;                *)
(*   EmailSender  (src/modules/email_sender.py): connect, send_email,      *)
(*     send_bulk_emails, disconnect, over an smtplib session.              *)
(*                                                                         *)
(* One behaviour follows ONE instance (a scraper or a sender, chosen in    *)
(* Init) through any sequence of calls of its public methods.  What the    *)
(* instance does not control (the mailbox on the server, the recipients    *)
(* table, the attachment files, the parsed message handed to               *)
(* get_email_body) is drawn in Init and stays fixed in a behaviour.        *)
(*                                                                         *)
(* Text is a sequence of symbols: "{" and "}" are the brace characters,    *)
(* every other symbol stands for a run of brace-free characters.           *)
(***************************************************************************)
EXTENDS Integers, Sequences, FiniteSets, TLC

\* ---------------------------------------------------------------- bounds
MaxMsg == 3
MaxRows == 3
MaxAtt == 2
MaxLen == 4
MaxParts == 2

VARIABLES
  inst,              \* "scraper" | "sender": the class of the instance
  imap,              \* the session self.imap refers to ("None": self.imap is None)
  smtp,              \* the session self.smtp refers to ("None": self.smtp is None)
  leaked,            \* an earlier session of this instance is still open
  lastConnect,       \* what the most recent connect() returned: "never" | "True" | "False"
  phase,             \* "connected": the most recent connect() returned True and no
                     \* disconnect() has returned since; "disconnected": disconnect()
                     \* has returned on the connected instance and no connect() has
                     \* returned True since; "new" otherwise
  op,                \* the method that returned last
  raised,            \* that method let an exception reach its caller
  ret,               \* the success flag it returned: "True" | "False" | "-"
  mailbox,           \* server: message number -> "absent" | "ok" | "fetch_raise" | "decode_raise"
  arg,               \* the arguments of the last scrape_emails call, and the
                     \* state of the session it was called on
  fetched,           \* the identifiers self.imap.fetch was called with, in call order
  emails_data,       \* the identifiers of the records scrape_emails returned
  recipients_df,     \* the recipients table
  subject_template,
  body_template,
  attachments,       \* the attachment paths, each by what the file system holds there
  log,               \* one entry per send_email call of the last method
  results,           \* the rows send_bulk_emails returned
  msg,               \* the parsed message given to get_email_body
  body               \* what get_email_body made of it

vars == <<inst, imap, smtp, leaked, lastConnect, phase, op, raised, ret, mailbox, arg,
          fetched, emails_data, recipients_df, subject_template, body_template,
          attachments, log, results, msg, body>>

\* ------------------------------------------------------------ sessions
\* An imaplib session, by what the server lets it do.  NONAUTH: transport
\* open, login not done.  AUTH: logged in, no folder selected.  SELECTED:
\* a folder is selected.  LOGOUT: logged out, transport shut.  BROKEN: the
\* server dropped the transport; every command raises.
ImapStates == {"NONAUTH", "AUTH", "SELECTED", "LOGOUT", "BROKEN"}

\* An smtplib session.  PLAIN: transport open, no TLS.  TLS: starttls done,
\* login not done.  AUTH: logged in.  CLOSED: quit() or close() done.
\* BROKEN: the server dropped the transport.
SmtpStates == {"PLAIN", "TLS", "AUTH", "CLOSED", "BROKEN"}

\* The transport of the session is open on both ends.
IsOpen(s) == s \in {"NONAUTH", "AUTH", "SELECTED", "PLAIN", "TLS"}

NoArg == [folder |-> "-", search |-> "-", max_emails |-> 0, session |-> "-"]
NoBody == [part |-> 0, how |-> "-"]

\* --------------------------------------------------------------- text
Sym == {"{", "}", "name", "email", "x"}

RECURSIVE SeqsUpTo(_, _)
SeqsUpTo(S, n) ==
  IF n = 0 THEN {<<>>}
  ELSE LET shorter == SeqsUpTo(S, n - 1)
       IN  shorter \cup {Append(s, x) : s \in {t \in shorter : Len(t) = n - 1}, x \in S}

\* A table cell as pandas read it: a string, or NaN for an empty cell.
Cell(s) == [nan |-> FALSE, s |-> s]
NaN == [nan |-> TRUE, s |-> <<>>]

\* str(value), email_sender.py:102
PyStr(c) == IF c.nan THEN <<"nan">> ELSE c.s


\* ------------------------------------------------------ EmailScraper
\* How a connect() call can go: IMAP4_SSL(...) raises (line 22), login
\* raises (line 23), or both succeed.
ImapConnectOutcomes == {"ctor_raise", "login_raise", "ok"}

\* self.imap after connect(): line 22 assigns it before line 23 can raise,
\* and nothing is assigned when the constructor itself raises.
EmailScraper_connect(s, outcome) ==
  CASE outcome = "ctor_raise" -> s
    [] outcome = "login_raise" -> "NONAUTH"
    [] OTHER -> "AUTH"

\* messages[0].split(), line 75: the identifiers the search matched, in the
\* server's order (ascending sequence numbers).
email_ids(mb) == SelectSeq([i \in 1..MaxMsg |-> i], LAMBDA i : mb[i] # "absent")

\* email_ids[:max_emails]: the slice from the wrong end.
LimitFromFront(ids, max_emails) ==
  SubSeq(ids, 1, IF max_emails < Len(ids) THEN max_emails ELSE Len(ids))

\* email_ids[-max_emails:], line 78.  Python reads -0 as 0: the slice [0:]
\* is the whole list.
Limit(ids, max_emails) ==
  IF max_emails = 0 \/ max_emails >= Len(ids) THEN ids
  ELSE SubSeq(ids, Len(ids) - max_emails + 1, Len(ids))

\* The loop body without its handler: the exception leaves the for loop.
FetchOneNoIsolation(kind) == [record |-> kind = "ok", propagates |-> kind # "ok"]

\* The body of the for loop, lines 83-117, for one identifier: fetch and
\* decode append a record; an exception of either is caught at line 115
\* and the loop goes on.
FetchOne(kind) == [record |-> kind = "ok", propagates |-> FALSE]

\* The for loop, lines 82-117.  An exception that left the loop body would
\* end the loop and reach the outer handler of line 121.
RECURSIVE FetchLoop(_, _, _)
FetchLoop(mb, ids, acc) ==
  IF ids = <<>> \/ acc.propagated THEN acc
  ELSE LET id == Head(ids)
           r == FetchOne(mb[id])
       IN  FetchLoop(mb, Tail(ids),
             [fetched |-> Append(acc.fetched, id),
              data |-> IF r.record THEN Append(acc.data, id) ELSE acc.data,
              propagated |-> r.propagates])

\* scrape_emails on a session that keeps the folder it had selected when
\* the server rejects the new one: the search and the fetches go on there.
scrape_emails_KeepsSelected(s, mb, folder, search, max_emails) ==
  LET empty(t) == [imap |-> t, fetched |-> <<>>, data |-> <<>>]
  IN  IF s \notin {"AUTH", "SELECTED"} THEN empty(s)
      ELSE IF folder = "invalid" /\ s = "AUTH" THEN empty("AUTH")
      ELSE IF search = "raise" THEN empty("SELECTED")
      ELSE LET loop == FetchLoop(mb, Limit(email_ids(mb), max_emails),
                         [fetched |-> <<>>, data |-> <<>>, propagated |-> FALSE])
           IN  [imap |-> "SELECTED", fetched |-> loop.fetched,
                data |-> IF loop.propagated THEN <<>> ELSE loop.data]

\* scrape_emails, lines 52-123, on session s.  select is legal in AUTH and
\* SELECTED only (self.imap None, or any other state: it raises, the outer
\* handler returns an empty frame).  A folder the server rejects leaves the
\* session in AUTH without raising, and search then raises.
scrape_emails(s, mb, folder, search, max_emails) ==
  LET empty(t) == [imap |-> t, fetched |-> <<>>, data |-> <<>>]
  IN  IF s \notin {"AUTH", "SELECTED"} THEN empty(s)
      ELSE IF folder = "invalid" THEN empty("AUTH")
      ELSE IF search = "raise" THEN empty("SELECTED")
      ELSE LET loop == FetchLoop(mb, Limit(email_ids(mb), max_emails),
                         [fetched |-> <<>>, data |-> <<>>, propagated |-> FALSE])
           IN  [imap |-> "SELECTED", fetched |-> loop.fetched,
                data |-> IF loop.propagated THEN <<>> ELSE loop.data]

\* disconnect without its try: what close() raises reaches the caller.
EmailScraper_disconnect_NoTry(s) ==
  IF s = "None" THEN [imap |-> s, raised |-> FALSE]
  ELSE IF s = "SELECTED" THEN [imap |-> "LOGOUT", raised |-> FALSE]
  ELSE [imap |-> s, raised |-> TRUE]

\* disconnect, lines 181-188.  close() is legal in SELECTED only; anywhere
\* else it raises, the bare except swallows it and logout(), the next
\* statement of the same try, is not reached.
EmailScraper_disconnect(s) ==
  IF s = "None" THEN [imap |-> s, raised |-> FALSE]
  ELSE IF s = "SELECTED" THEN [imap |-> "LOGOUT", raised |-> FALSE]
  ELSE [imap |-> s, raised |-> FALSE]


\* ------------------------------------------------------- EmailSender
\* How a connect() call can go: SMTP(...) raises (line 23), starttls raises
\* (line 24), login raises (line 25), or all three succeed.
SmtpConnectOutcomes == {"ctor_raise", "starttls_raise", "login_raise", "ok"}

\* self.smtp after connect(): line 23 assigns it before the later lines can
\* raise, and nothing is assigned when the constructor itself raises.
EmailSender_connect(s, outcome) ==
  CASE outcome = "ctor_raise" -> s
    [] outcome = "starttls_raise" -> "PLAIN"
    [] outcome = "login_raise" -> "TLS"
    [] OTHER -> "AUTH"

\* The recipients the model sends to, and what the server does with a
\* message for each on an authenticated session.
AddrOk == <<"a@ok">>
AddrRejected == <<"b@rejected">>
AddrDrop == <<"c@drop">>
ServerReply(to) ==
  CASE PyStr(to) = AddrOk -> "accept"
    [] PyStr(to) = AddrDrop -> "drop"
    [] OTHER -> "reject"

\* The attachment loop of send_email, lines 56-71, from path i on: a path
\* that does not exist is skipped (line 58), one that exists is read and
\* attached, and open() or read() of one that cannot be read raises.
RECURSIVE AttachFrom(_, _, _)
AttachFrom(atts, i, acc) ==
  IF i > Len(atts) THEN [attached |-> acc, raised |-> FALSE]
  ELSE CASE atts[i] = "missing" -> AttachFrom(atts, i + 1, acc)
         [] atts[i] = "unreadable" -> [attached |-> acc, raised |-> TRUE]
         [] OTHER -> AttachFrom(atts, i + 1, Append(acc, i))

\* send_email, lines 42-78, on session s: the message is built, then
\* handed to self.smtp.send_message (line 74).  entry.wire says what went
\* over the session: "none" (send_message not reached, or no transport),
\* "refused" (the server answers an unauthenticated session with 530),
\* "accepted", "rejected", "dropped" (the transport died under the send).
send_email(s, to, subject, text, atts) ==
  LET built == AttachFrom(atts, 1, <<>>)
      out(ok, message, t, wire) ==
        [ok |-> ok, message |-> message, smtp |-> t,
         entry |-> [to |-> to, subject |-> subject, body |-> text,
                    attached |-> built.attached, wire |-> wire]]
      reply == ServerReply(to)
  IN  IF built.raised
      THEN out(FALSE, "Failed to send: cannot read attachment", s, "none")
      ELSE IF s = "None"
      THEN out(FALSE, "Failed to send: no session", s, "none")
      ELSE IF s \in {"PLAIN", "TLS"}
      THEN out(FALSE, "Failed to send: authentication required", s, "refused")
      ELSE IF s \in {"CLOSED", "BROKEN"}
      THEN out(FALSE, "Failed to send: server not connected", "CLOSED", "none")
      ELSE IF reply = "accept"
      THEN out(TRUE, "Email sent successfully!", s, "accepted")
      ELSE IF reply = "drop"
      THEN out(FALSE, "Failed to send: server disconnected", "CLOSED", "dropped")
      ELSE out(FALSE, "Failed to send: recipient refused", s, "rejected")

\* "{" + col + "}", line 101
Placeholder(col) == <<"{", col, "}">>

\* str.replace(old, new): every non-overlapping occurrence of old, found
\* left to right, becomes new; the scan goes on after the occurrence.
RECURSIVE Replace(_, _, _)
Replace(s, old, new) ==
  IF Len(s) < Len(old) THEN s
  ELSE IF SubSeq(s, 1, Len(old)) = old
       THEN new \o Replace(SubSeq(s, Len(old) + 1, Len(s)), old, new)
       ELSE <<Head(s)>> \o Replace(Tail(s), old, new)

\* The placeholder loop, lines 100-103, for one template: the columns are
\* substituted one after the other, each into the text the earlier ones left.
RECURSIVE Render(_, _, _)
Render(template, columns, row) ==
  IF columns = <<>> THEN template
  ELSE Render(Replace(template, Placeholder(Head(columns)), PyStr(row[Head(columns)])),
              Tail(columns), row)

HasColumn(df, col) == \E i \in 1..Len(df.columns) : df.columns[i] = col

\* row.get(col, default), lines 115, 122, 123
RowGet(df, row, col, default) == IF HasColumn(df, col) THEN row[col] ELSE Cell(default)

\* The row step that appends nothing for a row whose send failed.
BulkRowDropsFailed(s, df, row, subject_t, body_t, atts) ==
  IF ~HasColumn(df, "email")
  THEN [smtp |-> s, entries |-> <<>>, rows |-> <<>>]
  ELSE LET r == send_email(s, row["email"], Render(subject_t, df.columns, row),
                           Render(body_t, df.columns, row), atts)
       IN  [smtp |-> r.smtp, entries |-> <<r.entry>>,
            rows |-> IF r.ok
                     THEN <<[Email |-> row["email"], Name |-> RowGet(df, row, "name", <<"N/A">>),
                             Status |-> "Sent", Message |-> r.message]>>
                     ELSE <<>>]

\* The row step that sends a second time when the first send failed.
BulkRowRetries(s, df, row, subject_t, body_t, atts) ==
  IF ~HasColumn(df, "email")
  THEN [smtp |-> s, entries |-> <<>>,
        rows |-> <<[Email |-> Cell(<<"Unknown">>), Name |-> RowGet(df, row, "name", <<"N/A">>),
                    Status |-> "Failed", Message |-> "'email'"]>>]
  ELSE LET subject == Render(subject_t, df.columns, row)
           text == Render(body_t, df.columns, row)
           r1 == send_email(s, row["email"], subject, text, atts)
           r2 == send_email(r1.smtp, row["email"], subject, text, atts)
           r == IF r1.ok THEN r1 ELSE r2
       IN  [smtp |-> r.smtp,
            entries |-> IF r1.ok THEN <<r1.entry>> ELSE <<r1.entry, r2.entry>>,
            rows |-> <<[Email |-> row["email"], Name |-> RowGet(df, row, "name", <<"N/A">>),
                        Status |-> IF r.ok THEN "Sent" ELSE "Failed",
                        Message |-> r.message]>>]

\* The row step that reads the address with row.get("email", "Unknown")
\* before the send, so that a table without the column is sent from.
BulkRowDefaultsEmail(s, df, row, subject_t, body_t, atts) ==
  LET to == RowGet(df, row, "email", <<"Unknown">>)
      r == send_email(s, to, Render(subject_t, df.columns, row),
                      Render(body_t, df.columns, row), atts)
  IN  [smtp |-> r.smtp, entries |-> <<r.entry>>,
       rows |-> <<[Email |-> to, Name |-> RowGet(df, row, "name", <<"N/A">>),
                   Status |-> IF r.ok THEN "Sent" ELSE "Failed",
                   Message |-> r.message]>>]

\* The body of the row loop of send_bulk_emails, lines 94-126, for one row.
\* The templates are rendered, then row["email"] is read (line 107): with
\* no email column it raises KeyError, send_email is not called and the
\* handler of line 120 appends a Failed row.  Otherwise send_email is
\* called once and one row is appended with its outcome.
BulkRow(s, df, row, subject_t, body_t, atts) ==
  IF ~HasColumn(df, "email")
  THEN [smtp |-> s, entries |-> <<>>,
        rows |-> <<[Email |-> Cell(<<"Unknown">>), Name |-> RowGet(df, row, "name", <<"N/A">>),
                    Status |-> "Failed", Message |-> "'email'"]>>]
  ELSE LET r == send_email(s, row["email"], Render(subject_t, df.columns, row),
                           Render(body_t, df.columns, row), atts)
       IN  [smtp |-> r.smtp, entries |-> <<r.entry>>,
            rows |-> <<[Email |-> row["email"], Name |-> RowGet(df, row, "name", <<"N/A">>),
                        Status |-> IF r.ok THEN "Sent" ELSE "Failed",
                        Message |-> r.message]>>]

\* The row loop of send_bulk_emails, lines 91-128, from row i on.
RECURSIVE BulkFrom(_, _, _, _, _, _)
BulkFrom(df, i, subject_t, body_t, atts, acc) ==
  IF i > Len(df.rows) THEN acc
  ELSE LET r == BulkRow(acc.smtp, df, df.rows[i], subject_t, body_t, atts)
       IN  BulkFrom(df, i + 1, subject_t, body_t, atts,
                    [smtp |-> r.smtp, log |-> acc.log \o r.entries,
                     results |-> acc.results \o r.rows])

send_bulk_emails(s, df, subject_t, body_t, atts) ==
  BulkFrom(df, 1, subject_t, body_t, atts, [smtp |-> s, log |-> <<>>, results |-> <<>>])

\* disconnect without its try: what quit() raises reaches the caller.
EmailSender_disconnect_NoTry(s) ==
  IF s = "None" THEN [smtp |-> s, raised |-> FALSE]
  ELSE IF s \in {"CLOSED", "BROKEN"} THEN [smtp |-> "CLOSED", raised |-> TRUE]
  ELSE [smtp |-> "CLOSED", raised |-> FALSE]

\* disconnect, lines 130-136.  quit() sends QUIT and closes the transport;
\* on a session with no transport it raises and the bare except swallows it.
EmailSender_disconnect(s) ==
  IF s = "None" THEN [smtp |-> s, raised |-> FALSE]
  ELSE [smtp |-> "CLOSED", raised |-> FALSE]


\* ---------------------------------------------------- get_email_body
\* A parsed message: a leaf part, or a multipart container of parts.  utf8
\* says whether the part's payload bytes decode as UTF-8.
Leaf(ctype, disposition, utf8) ==
  [multipart |-> FALSE, ctype |-> ctype, disposition |-> disposition,
   utf8 |-> utf8, parts |-> <<>>]
Multipart(parts) ==
  [multipart |-> TRUE, ctype |-> "multipart/mixed", disposition |-> "",
   utf8 |-> FALSE, parts |-> parts]
NoMsg == Leaf("text/plain", "", TRUE)

\* Message.walk(): the part itself, then the walk of each of its subparts,
\* in order (depth first).
RECURSIVE walk(_)
RECURSIVE WalkParts(_)
walk(m) == <<m>> \o WalkParts(m.parts)
WalkParts(parts) == IF parts = <<>> THEN <<>> ELSE walk(Head(parts)) \o WalkParts(Tail(parts))

\* The loop of lines 149-158 over the walk w, from its part i on: the first
\* text/plain part that is not an attachment and whose payload decodes
\* gives the body; one whose decode raises is passed over (line 157).
RECURSIVE BodyFrom(_, _)
BodyFrom(w, i) ==
  IF i > Len(w) THEN [part |-> 0, how |-> "empty"]
  ELSE IF w[i].ctype = "text/plain" /\ w[i].disposition # "attachment" /\ w[i].utf8
       THEN [part |-> i, how |-> "decoded"]
       ELSE BodyFrom(w, i + 1)

\* get_email_body, lines 144-167: which part of the walk the body comes
\* from (0: none, the body is "") and how its bytes became text: "decoded"
\* (strict UTF-8), "raw" (str of the undecoded payload, line 163).
get_email_body(m) ==
  IF m.multipart THEN BodyFrom(walk(m), 1)
  ELSE IF m.utf8 THEN [part |-> 1, how |-> "decoded"]
  ELSE [part |-> 1, how |-> "raw"]

\* -------------------------------------------------------------- inputs
\* What the mailbox holds under a message number: nothing the search
\* matches, a message that fetches and decodes, one whose fetch raises, one
\* whose decode raises.
MessageKinds == {"absent", "ok", "fetch_raise", "decode_raise"}
Mailboxes == [1..MaxMsg -> MessageKinds]
NoMailbox == [i \in 1..MaxMsg |-> "absent"]

Table(columns, rows) == [columns |-> columns, rows |-> rows]
NoTable == Table(<<"name", "email">>, <<>>)
Range(f) == {f[i] : i \in DOMAIN f}

\* The recipients tables of the session runs: with and without the email
\* and the name column, up to MaxRows rows, each recipient one the server
\* accepts, rejects or drops the transport on.
SessionRows(columns) ==
  [Range(columns) -> {Cell(<<"x">>), Cell(AddrOk), Cell(AddrRejected), Cell(AddrDrop)}]
SessionTables ==
  UNION {{Table(columns, rows) :
            rows \in SeqsUpTo({r \in SessionRows(columns) :
                                 /\ HasColumn(Table(columns, <<>>), "email") => r["email"] # Cell(<<"x">>)
                                 /\ HasColumn(Table(columns, <<>>), "name") => r["name"] = Cell(<<"x">>)},
                              MaxRows)} :
         columns \in {<<"name", "email">>, <<"email">>, <<"name">>}}

AttachmentLists == SeqsUpTo({"present", "missing", "unreadable"}, MaxAtt)

\* Every table is sent without attachments; every attachment list goes with
\* the tables of at most one row (and with every single send).
SenderInputs ==
  {<<df, atts>> \in SessionTables \X AttachmentLists : Len(df.rows) <= 1 \/ atts = <<>>}

SessionSubject == <<"x", "{", "name", "}">>
SessionBody == <<"{", "name", "}", "x", "{", "email", "}">>


\* The tables of the rendering runs: one row, the two columns in either
\* order, a name that is plain text, that is itself a placeholder, or that
\* is an empty cell.
RenderTables ==
  {Table(columns, <<[c \in {"name", "email"} |-> IF c = "name" THEN n ELSE e]>>) :
     columns \in {<<"name", "email">>, <<"email", "name">>},
     n \in {Cell(<<"x">>), Cell(<<"{", "email", "}">>), Cell(<<"{", "name", "}">>), NaN},
     e \in {Cell(AddrOk), Cell(AddrRejected)}}

\* The messages of the body runs: a single part, or a multipart of up to
\* MaxParts parts, each a leaf or a multipart of up to MaxParts leaves.
Leaves ==
  {Leaf(ctype, disposition, utf8) :
     ctype \in {"text/plain", "text/html"}, disposition \in {"", "attachment"},
     utf8 \in BOOLEAN}
InnerMultiparts == {Multipart(parts) : parts \in SeqsUpTo(Leaves, MaxParts) \ {<<>>}}
Messages ==
  Leaves \cup
  {Multipart(parts) : parts \in SeqsUpTo(Leaves \cup InnerMultiparts, MaxParts) \ {<<>>}}

\* ------------------------------------------------------------- actions
\* What the caller sees of the method that just returned.
Returned(method, exc, flag, a, f, d, l, r) ==
  /\ op' = method
  /\ raised' = exc
  /\ ret' = flag
  /\ arg' = a
  /\ fetched' = f
  /\ emails_data' = d
  /\ log' = l
  /\ results' = r

PyBool(b) == IF b THEN "True" ELSE "False"

\* Where the instance stands between its connects and disconnects, as its
\* caller knows it from what connect() returned (True: line 24 of the
\* scraper, line 26 of the sender) and from the disconnect() calls that
\* have returned.
AfterConnect(ph, ok) ==
  IF ok THEN "connected"
  ELSE IF ph = "connected" THEN "new"
  ELSE ph
AfterDisconnect(ph) == IF ph = "connected" THEN "disconnected" ELSE ph

Inputs == <<inst, mailbox, recipients_df, subject_template, body_template, attachments, msg>>

\* EmailScraper.connect, lines 19-26.  Every exception is caught (line 25).
\* The session self.imap referred to before is not logged out: when it was
\* open, it stays open unless the runtime frees the unreferenced object.
ScraperConnect ==
  /\ inst = "scraper"
  /\ \E outcome \in ImapConnectOutcomes, freed \in BOOLEAN :
       /\ ~freed => (outcome # "ctor_raise" /\ IsOpen(imap))
       /\ imap' = EmailScraper_connect(imap, outcome)
       /\ leaked' = (leaked \/ ~freed)
       /\ lastConnect' = PyBool(outcome = "ok")
       /\ phase' = AfterConnect(phase, outcome = "ok")
       /\ Returned("connect", FALSE, PyBool(outcome = "ok"), NoArg, <<>>, <<>>, <<>>, <<>>)
  /\ UNCHANGED <<Inputs, smtp, body>>

\* EmailScraper.scrape_emails, lines 40-123.
Scrape ==
  /\ inst = "scraper"
  /\ \E folder \in {"valid", "invalid"}, search \in {"ok", "raise"}, max_emails \in 0..MaxMsg :
       LET r == scrape_emails(imap, mailbox, folder, search, max_emails)
       IN  /\ imap' = r.imap
           /\ Returned("scrape_emails", FALSE, "-",
                       [folder |-> folder, search |-> search, max_emails |-> max_emails,
                        session |-> imap],
                       r.fetched, r.data, <<>>, <<>>)
  /\ UNCHANGED <<Inputs, smtp, leaked, lastConnect, phase, body>>

\* EmailScraper.disconnect, lines 181-188.
ScraperDisconnect ==
  /\ inst = "scraper"
  /\ LET r == EmailScraper_disconnect(imap)
     IN  /\ imap' = r.imap
         /\ Returned("disconnect", r.raised, "-", NoArg, <<>>, <<>>, <<>>, <<>>)
  /\ phase' = AfterDisconnect(phase)
  /\ UNCHANGED <<Inputs, smtp, leaked, lastConnect, body>>

\* EmailSender.connect, lines 20-28.
SenderConnect ==
  /\ inst = "sender"
  /\ \E outcome \in SmtpConnectOutcomes, freed \in BOOLEAN :
       /\ ~freed => (outcome # "ctor_raise" /\ IsOpen(smtp))
       /\ smtp' = EmailSender_connect(smtp, outcome)
       /\ leaked' = (leaked \/ ~freed)
       /\ lastConnect' = PyBool(outcome = "ok")
       /\ phase' = AfterConnect(phase, outcome = "ok")
       /\ Returned("connect", FALSE, PyBool(outcome = "ok"), NoArg, <<>>, <<>>, <<>>, <<>>)
  /\ UNCHANGED <<Inputs, imap, body>>

\* EmailSender.send_email, lines 30-78, called on its own.
SendEmail ==
  /\ inst = "sender"
  /\ \E to \in {Cell(AddrOk), Cell(AddrRejected), Cell(AddrDrop)} :
       LET r == send_email(smtp, to, <<"x">>, <<"x">>, attachments)
       IN  /\ smtp' = r.smtp
           /\ Returned("send_email", FALSE, PyBool(r.ok), NoArg, <<>>, <<>>, <<r.entry>>, <<>>)
  /\ UNCHANGED <<Inputs, imap, leaked, lastConnect, phase, body>>

\* EmailSender.send_bulk_emails, lines 80-128.
SendBulk ==
  /\ inst = "sender"
  /\ LET r == send_bulk_emails(smtp, recipients_df, subject_template, body_template, attachments)
     IN  /\ smtp' = r.smtp
         /\ Returned("send_bulk_emails", FALSE, "-", NoArg, <<>>, <<>>, r.log, r.results)
  /\ UNCHANGED <<Inputs, imap, leaked, lastConnect, phase, body>>

\* EmailSender.disconnect, lines 130-136.
SenderDisconnect ==
  /\ inst = "sender"
  /\ LET r == EmailSender_disconnect(smtp)
     IN  /\ smtp' = r.smtp
         /\ Returned("disconnect", r.raised, "-", NoArg, <<>>, <<>>, <<>>, <<>>)
  /\ phase' = AfterDisconnect(phase)
  /\ UNCHANGED <<Inputs, imap, leaked, lastConnect, body>>

\* The server, or the network, drops the transport of the open session.
ServerDrop ==
  /\ IsOpen(IF inst = "scraper" THEN imap ELSE smtp)
  /\ imap' = IF inst = "scraper" THEN "BROKEN" ELSE imap
  /\ smtp' = IF inst = "sender" THEN "BROKEN" ELSE smtp
  /\ UNCHANGED <<Inputs, leaked, lastConnect, phase, op, raised, ret, arg, fetched,
                 emails_data, log, results, body>>

\* EmailScraper.get_email_body, lines 144-167, on the message msg.
GetBody ==
  /\ inst = "scraper"
  /\ op = "init"
  /\ body' = get_email_body(msg)
  /\ Returned("get_email_body", FALSE, "-", NoArg, <<>>, <<>>, <<>>, <<>>)
  /\ UNCHANGED <<Inputs, imap, smtp, leaked, lastConnect, phase>>

\* ------------------------------------------------------ specifications
\* The instance as its constructor leaves it (lines 14-17 of either class).
Constructed ==
  /\ imap = "None"
  /\ smtp = "None"
  /\ leaked = FALSE
  /\ lastConnect = "never"
  /\ phase = "new"
  /\ op = "init"
  /\ raised = FALSE
  /\ ret = "-"
  /\ arg = NoArg
  /\ fetched = <<>>
  /\ emails_data = <<>>
  /\ log = <<>>
  /\ results = <<>>
  /\ body = NoBody

\* Spec: one instance, any sequence of its session methods.
Init ==
  /\ Constructed
  /\ msg = NoMsg
  /\ subject_template = SessionSubject
  /\ body_template = SessionBody
  /\ \/ /\ inst = "scraper"
        /\ mailbox \in Mailboxes
        /\ recipients_df = NoTable
        /\ attachments = <<>>
     \/ /\ inst = "sender"
        /\ mailbox = NoMailbox
        /\ \E p \in SenderInputs : recipients_df = p[1] /\ attachments = p[2]

Next ==
  \/ ScraperConnect
  \/ Scrape
  \/ ScraperDisconnect
  \/ SenderConnect
  \/ SendEmail
  \/ SendBulk
  \/ SenderDisconnect
  \/ ServerDrop

Spec == Init /\ [][Next]_vars

\* RenderSpec: send_bulk_emails on a connected sender (connect() returned
\* True), over the templates of up to MaxLen symbols and the RenderTables.
RenderInit ==
  /\ inst = "sender"
  /\ imap = "None"
  /\ smtp = "AUTH"
  /\ leaked = FALSE
  /\ lastConnect = "True"
  /\ phase = "connected"
  /\ op = "connect"
  /\ raised = FALSE
  /\ ret = "True"
  /\ arg = NoArg
  /\ fetched = <<>>
  /\ emails_data = <<>>
  /\ log = <<>>
  /\ results = <<>>
  /\ body = NoBody
  /\ msg = NoMsg
  /\ mailbox = NoMailbox
  /\ attachments = <<>>
  /\ recipients_df \in RenderTables
  /\ subject_template \in SeqsUpTo(Sym, MaxLen)
  /\ body_template = SessionBody

RenderNext == SendBulk

RenderSpec == RenderInit /\ [][RenderNext]_vars

\* BodySpec: get_email_body on every message of Messages.
BodyInit ==
  /\ Constructed
  /\ inst = "scraper"
  /\ msg \in Messages
  /\ mailbox = NoMailbox
  /\ recipients_df = NoTable
  /\ attachments = <<>>
  /\ subject_template = SessionSubject
  /\ body_template = SessionBody

BodyNext == GetBody

BodySpec == BodyInit /\ [][BodyNext]_vars


\* -------------------------------------------------------------- claims
Statuses(rs) == [i \in 1..Len(rs) |-> rs[i].Status]

\* What row i of the table must show in the results' Email and Name columns.
EmailOf(df, i) == IF HasColumn(df, "email") THEN df.rows[i]["email"] ELSE Cell(<<"Unknown">>)
NameOf(df, i) == IF HasColumn(df, "name") THEN df.rows[i]["name"] ELSE Cell(<<"N/A">>)

\* C1: send_bulk_emails returns exactly one result row per recipient row,
\* row i of the result being about row i of the table (same order, nothing
\* merged or left out), each with Status Sent or Failed, whatever mix of
\* sent, failed and raising rows the table holds.
C1_BulkOneRowPerRecipient ==
  op = "send_bulk_emails" =>
    /\ ~raised
    /\ Len(results) = Len(recipients_df.rows)
    /\ \A i \in 1..Len(results) :
         /\ results[i].Status \in {"Sent", "Failed"}
         /\ results[i].Email = EmailOf(recipients_df, i)
         /\ results[i].Name = NameOf(recipients_df, i)

\* A bulk send of three rows, two of them the same recipient, with sent
\* and failed rows.
C1_Witness ==
  /\ op = "send_bulk_emails"
  /\ Len(results) = 3
  /\ recipients_df.rows[1] = recipients_df.rows[3]
  /\ Statuses(results) = <<"Sent", "Failed", "Sent">>

\* C2: for max_emails >= 1 scrape_emails returns at most max_emails rows
\* and fetches at most max_emails identifiers; when the search matched at
\* least max_emails identifiers, the identifiers fetched are the last
\* max_emails of the search result, in the server's order, and no other.
C2_ScrapeKeepsLastN ==
  (op = "scrape_emails" /\ arg.max_emails >= 1) =>
    LET ids == email_ids(mailbox)
        n == arg.max_emails
    IN  /\ Len(emails_data) <= n
        /\ Len(fetched) <= n
        /\ (imap = "SELECTED" /\ arg.search = "ok" /\ Len(ids) >= n) =>
             /\ Len(fetched) = n
             /\ \A k \in 1..n : fetched[k] = ids[Len(ids) - n + k]

\* A scrape that had to cut the search result: more matches than max_emails.
C2_Witness ==
  /\ op = "scrape_emails"
  /\ arg.max_emails = 2
  /\ Len(email_ids(mailbox)) = 3
  /\ Len(fetched) = 2
  /\ Len(emails_data) = 2

\* C3: in a scrape that reached its fetch loop, every retained identifier
\* is fetched, those after a failing one included, and the result holds
\* one record for each identifier whose fetch and decode succeeded, in
\* order, and none for one whose fetch or decode raised.
C3_DecodeIsolation ==
  (op = "scrape_emails" /\ imap = "SELECTED" /\ arg.search = "ok") =>
    LET retained == Limit(email_ids(mailbox), arg.max_emails)
    IN  /\ fetched = retained
        /\ emails_data = SelectSeq(retained, LAMBDA id : mailbox[id] = "ok")
        /\ \A k \in 1..Len(retained) :
             mailbox[retained[k]] \in {"fetch_raise", "decode_raise"} =>
               \A j \in 1..Len(emails_data) : emails_data[j] # retained[k]

\* A scrape whose first identifier fails to fetch, whose second fails to
\* decode and whose third is well formed and is in the result.
C3_Witness ==
  /\ op = "scrape_emails"
  /\ Len(fetched) = 3
  /\ mailbox[fetched[1]] = "fetch_raise"
  /\ mailbox[fetched[2]] = "decode_raise"
  /\ emails_data = <<fetched[3]>>

\* C4: send_bulk_emails calls send_email once for each row of a table that
\* has an email column (never twice, never not at all), in row order, and
\* not at all for a table without one; a row's status is Sent exactly when
\* the server accepted its message, and a rejected row carries the
\* rejection as its Message.
C4_BulkOneAttemptPerRowInOrder ==
  op = "send_bulk_emails" =>
    IF HasColumn(recipients_df, "email")
    THEN /\ Len(log) = Len(recipients_df.rows)
         /\ Len(results) = Len(log)
         /\ \A i \in 1..Len(log) :
              /\ log[i].to = recipients_df.rows[i]["email"]
              /\ (results[i].Status = "Sent") <=> (log[i].wire = "accepted")
              /\ log[i].wire = "rejected" =>
                   /\ results[i].Status = "Failed"
                   /\ results[i].Message = "Failed to send: recipient refused"
    ELSE log = <<>>

\* Three rows of which the server rejects the second only.
C4_Witness ==
  /\ op = "send_bulk_emails"
  /\ Len(log) = 3
  /\ log[1].wire = "accepted"
  /\ log[2].wire = "rejected"
  /\ log[3].wire = "accepted"
  /\ Statuses(results) = <<"Sent", "Failed", "Sent">>
  /\ results[2].Message = "Failed to send: recipient refused"

\* C5: send_email never raises; it returns (False, reason) whenever an
\* attachment path names a file that is missing or cannot be read, or the
\* message was not accepted by the session; it returns (True, ...) only
\* when the message went out with all the requested attachments.
C5_SendEmailReportsEveryFailure ==
  op = "send_email" =>
    /\ ~raised
    /\ (\E i \in 1..Len(attachments) : attachments[i] # "present") => ret = "False"
    /\ log[1].wire # "accepted" => ret = "False"
    /\ ret = "True" =>
         /\ log[1].wire = "accepted"
         /\ Len(log[1].attached) = Len(attachments)

\* C6: connect never raises and returns False when it fails; and while the
\* most recent connect of the instance returned False, the instance
\* fetches no message and no message of it is accepted for delivery.
C6_NothingMovesAfterFailedConnect ==
  /\ op = "connect" => (~raised /\ ret \in {"True", "False"})
  /\ lastConnect = "False" =>
       /\ fetched = <<>>
       /\ \A i \in 1..Len(log) : log[i].wire # "accepted"

\* Every {c} of the template, c a column of the table, replaced at once by
\* the string form of the row's value; everything else copied.
RECURSIVE SubstituteAll(_, _, _)
SubstituteAll(template, df, row) ==
  IF template = <<>> THEN <<>>
  ELSE IF /\ Len(template) >= 3
          /\ template[1] = "{"
          /\ template[3] = "}"
          /\ HasColumn(df, template[2])
       THEN PyStr(row[template[2]]) \o SubstituteAll(SubSeq(template, 4, Len(template)), df, row)
       ELSE <<Head(template)>> \o SubstituteAll(Tail(template), df, row)

\* C7: the subject and the body passed to send_email for a row are the
\* templates with every {c}, c a column of the table, replaced by the
\* string form of the row's value for c, and everything else, the tokens
\* that name no column included, left as it is.
C7_RenderedIsTemplateWithTokensReplaced ==
  op = "send_bulk_emails" =>
    \A i \in 1..Len(log) :
      /\ log[i].subject = SubstituteAll(subject_template, recipients_df, recipients_df.rows[i])
      /\ log[i].body = SubstituteAll(body_template, recipients_df, recipients_df.rows[i])

\* The first text/plain part of the walk w (0: there is none).
RECURSIVE FirstPlain(_, _)
FirstPlain(w, i) ==
  IF i > Len(w) THEN 0
  ELSE IF w[i].ctype = "text/plain" THEN i
  ELSE FirstPlain(w, i + 1)

\* C8: get_email_body never raises; the body comes from the first
\* text/plain part of the depth-first walk of the message, whatever bytes
\* it holds, and from the top-level payload when the message has no
\* text/plain part.
C8_BodyFromFirstPlainPart ==
  op = "get_email_body" =>
    /\ ~raised
    /\ LET first == FirstPlain(walk(msg), 1)
       IN  IF first # 0
           THEN body.part = first /\ body.how # "empty"
           ELSE body.part = 1

\* C9: when EmailScraper.disconnect has returned, the session the instance
\* holds is no longer an authenticated one (it has been logged out, unless
\* it was never authenticated or the server had dropped it).
C9_DisconnectLogsOut ==
  (op = "disconnect" /\ inst = "scraper") => imap \notin {"AUTH", "SELECTED"}

\* C10: disconnect, of either class, raises in no state of the instance.
C10_DisconnectNeverRaises ==
  op = "disconnect" => ~raised

\* disconnect called twice after a connect whose login failed: close()
\* raises on the session that was never authenticated.
C10_Witness ==
  /\ op = "disconnect"
  /\ inst = "scraper"
  /\ lastConnect = "False"
  /\ imap = "NONAUTH"

\* C11 (as stated): a bulk send over a table that has no email column
\* fails before the row loop: no row is processed, nothing is transmitted
\* and no per-row result is reported.
C11_NoEmailColumnFailsBeforeLoop ==
  (op = "send_bulk_emails" /\ ~HasColumn(recipients_df, "email")) =>
    (log = <<>> /\ results = <<>>)

\* C11: a bulk send over a table that has no email column transmits
\* nothing, does not raise, and reports every row of the table as one
\* "Failed" result row whose Email is "Unknown" and whose Message is the
\* text of the KeyError.
C11_NoEmailColumnFailsEveryRow ==
  (op = "send_bulk_emails" /\ ~HasColumn(recipients_df, "email")) =>
    /\ ~raised
    /\ log = <<>>
    /\ Len(results) = Len(recipients_df.rows)
    /\ \A i \in 1..Len(results) :
         /\ results[i].Status = "Failed"
         /\ results[i].Email = Cell(<<"Unknown">>)
         /\ results[i].Message = "'email'"

\* A bulk send on an authenticated session over a table of two rows that
\* has a name column only.
C11_Witness ==
  /\ op = "send_bulk_emails"
  /\ ~HasColumn(recipients_df, "email")
  /\ Len(recipients_df.rows) = 2
  /\ Len(results) = 2
  /\ smtp = "AUTH"

\* C12: scrape_emails never raises; a scrape that names a folder the
\* server rejects returns an empty result and fetches no message, whatever
\* the session had selected before; a scrape whose search fails, or whose
\* search matches nothing, returns an empty result.
C12_ScrapeFailuresGiveEmptyResult ==
  op = "scrape_emails" =>
    /\ ~raised
    /\ arg.folder = "invalid" => (emails_data = <<>> /\ fetched = <<>>)
    /\ arg.search = "raise" => emails_data = <<>>
    /\ email_ids(mailbox) = <<>> => emails_data = <<>>

\* A scrape of a rejected folder on a session that an earlier scrape had
\* left with a valid folder selected, over a mailbox that holds a message
\* which fetches and decodes.
C12_Witness ==
  /\ op = "scrape_emails"
  /\ arg.session = "SELECTED"
  /\ arg.folder = "invalid"
  /\ arg.search = "ok"
  /\ \E id \in 1..MaxMsg : mailbox[id] = "ok"
  /\ fetched = <<>>
  /\ imap = "AUTH"

\* C13: in every state of an instance, at most one transport session that
\* the instance opened is still open: never the session it holds together
\* with an earlier one it no longer refers to.
C13_AtMostOneOpenSession ==
  ~(leaked /\ IsOpen(IF inst = "scraper" THEN imap ELSE smtp))

\* The orders the columns of a table can come in.
Orders(columns) ==
  {p \in [1..Len(columns) -> Range(columns)] : \A c \in Range(columns) : \E i \in 1..Len(columns) : p[i] = c}

\* C14: the subject and the body sent for a row do not depend on the order
\* of the table's columns: substituting the columns in any order gives the
\* text that was sent, and that text is the template with all its {column}
\* tokens replaced at once, so that a token brought in by a row value is
\* not replaced in its turn.
C14_RenderingIgnoresColumnOrder ==
  op = "send_bulk_emails" =>
    \A i \in 1..Len(log) :
      LET row == recipients_df.rows[i]
      IN  \A columns \in Orders(recipients_df.columns) :
            /\ Render(subject_template, columns, row) = log[i].subject
            /\ Render(body_template, columns, row) = log[i].body
            /\ Render(subject_template, columns, row)
                 = SubstituteAll(subject_template, recipients_df, row)
            /\ Render(body_template, columns, row)
                 = SubstituteAll(body_template, recipients_df, row)

\* C15: after disconnect has returned on a connected instance, and until
\* a connect returns True, the instance fetches and transmits nothing and
\* raises nothing: send_email returns False, every row of a bulk send is
\* "Failed", and scrape_emails calls no fetch and returns an empty result.
C15_NothingMovesAfterDisconnect ==
  phase = "disconnected" =>
    /\ ~raised
    /\ fetched = <<>>
    /\ emails_data = <<>>
    /\ \A i \in 1..Len(log) : log[i].wire \notin {"accepted", "rejected", "dropped"}
    /\ op = "send_email" => ret = "False"
    /\ \A i \in 1..Len(results) : results[i].Status = "Failed"

====
